---- MODULE Spec2Model ----
(***************************************************************************)
(* Model of the experiment orchestrator                                    *)
(* perfmon/simultaneous_capture_trafgen.py: the parent process forks one   *)
(* wrapper child per (host, interface) of the capture config and one per   *)
(* host1/host2 endpoint of the test descriptor, keeps a registry `pids`,   *)
(* reaps children with os.wait() and kills the registry on SIGINT.         *)
(*                                                                         *)
(* Model of the analysis of the logs: log_processor.py turns a collector   *)
(* log into a rate series (process_log_to_df, process_all_logs) and        *)
(* peak_speed_detect.py computes the peak envelope and the peaking score.  *)
(*                                                                         *)
(* Models of the other scripts of perfmon: trafgen.py (generators only),   *)
(* the forked wrappers' handling of SIGINT, run_experiments.py (one        *)
(* experiment after another) and the sampling loop of collate_stats.py.    *)
(***************************************************************************)
EXTENDS Integers, Sequences, FiniteSets, TLC

VARIABLES
    interfaces,   \* json.load(args.capconfig): sequence of hosts
    tests,        \* json.load(args.tgconfig): sequence of test entries
    pc,           \* position of the orchestrator's main flow
    pid,          \* the module-level variable `pid`: result of the last os.fork()
    pending,      \* TRUE between os.fork() returning and pids.append
    pids,         \* the registry: sequence of dicts
    proc,         \* the OS view of each child: phase, remote status, sleep left
    hpc,          \* position inside signal_handler ("idle" when not running)
    sweep,        \* index of the `for pid in pids` loop of signal_handler
    kills,        \* os.kill calls made so far: sequence of [pid, outcome]
    stdout,       \* lines printed to stdout by the handler
    stderr,       \* lines printed to stderr by the wait loop (unordered)
    exitCode,     \* exit status of the orchestrator (-1 while it runs)
    raw_log,         \* process_log_to_df: the data lines of input_log
    time_threshold,  \* process_log_to_df / process_all_logs: time_threshold
    df,              \* process_log_to_df: what the call returned or raised
    log_pairs,       \* process_all_logs: find_log_pairs(), a sequence of pairs
    queue_threshold, \* process_all_logs: queue_threshold
    batch_i,         \* process_all_logs: pairs the loop has gone through
    csv_files,       \* process_all_logs: the files written by to_csv
    processed_files, \* process_all_logs: the list it returns
    errors,          \* process_all_logs: 'Error processing ...' lines printed
    throughput,      \* peak_speed_detect: throughput
    time,            \* peak_speed_detect: time (in seconds)
    bin_widths_ms,   \* peak_speed_detect: [short_term, long_term]
    peak_out,        \* peak_speed_detect: what the call returned or raised
    waitpid_i,       \* trafgen.py: entries the `for pid in pids` wait loop has done
    wrapper,         \* each forked wrapper: position, handler loop index, its copy of pids
    ckills,          \* os.kill calls made by wrappers: sequence of [by, pid, outcome]
    test_files,      \* run_experiments: glob of the test_configs directory
    exp_i,           \* run_experiments: index of the current test_file
    exp_pc,          \* run_experiments: position inside the loop body
    subprocess,      \* run_experiments: state of the process of each experiment
    test_configs,    \* run_experiments: files in test_configs_dir
    completed,       \* run_experiments: files in completed_dir
    exp_out,         \* run_experiments: lines printed
    counters,        \* collate_stats.py: the link counters of the interface
    prev,            \* collate_stats.py: prev_packets_rx, prev_bytes_rx, ...
    emitted,         \* collate_stats.py: link values printed, one record per tick
    readings,        \* collate_stats.py: the counters read at each tick
    col_pc           \* collate_stats.py: position of the sampling loop

\* the state of the orchestrator
orchestrator == <<interfaces, tests, pc, pid, pending, pids, proc, hpc, sweep,
                  kills, stdout, stderr, exitCode>>
\* the state of the analysis functions
series == <<raw_log, time_threshold, df>>
batch == <<log_pairs, queue_threshold, batch_i, csv_files, processed_files, errors>>
peak == <<throughput, time, bin_widths_ms, peak_out>>
analysis == <<series, batch, peak>>
\* the state of the generator-only script, of the wrappers' signal handling,
\* of the experiment runner and of the collector
trafgen == <<waitpid_i>>
wrappers == <<wrapper, ckills>>
experiments == <<test_files, exp_i, exp_pc, subprocess, test_configs, completed,
                 exp_out>>
collector == <<counters, prev, emitted, readings, col_pc>>
tools == <<trafgen, wrappers, experiments, collector>>

vars == <<orchestrator, analysis, tools>>

---------------------------------------------------------------------------
(* Bounds of the model *)
MaxHosts == 2
MaxIfaces == 2
MaxTests == 2
MaxProcs == 3
MaxTimed == 2
MaxOffset == 1
MaxSamples == 3
MaxTime == 3
MaxQdiscs == 2

---------------------------------------------------------------------------
(* Inputs: the two JSON descriptors *)

SeqsUpTo(S, n) == UNION {[1..k -> S] : k \in 0..n}

\* one host of the capture config: {hostname, interfaces: [ifname, ...]}
HostSpecs(h) ==
    {[hostname |-> h, interfaces |-> [k \in 1..m |-> k]] : m \in 1..MaxIfaces}

\* the capture config: hosts 1..n, each with 1..MaxIfaces interfaces
CaptureConfigs ==
    UNION {{ifs \in [1..n -> UNION {HostSpecs(h) : h \in 1..MaxHosts}] :
                \A h \in 1..n : ifs[h] \in HostSpecs(h)} : n \in 0..MaxHosts}

\* one endpoint object {name, cmd, persist, start_time}, start_time in 0..o
Endpoints(n, o) ==
    {[name |-> n, cmd |-> "cmd", start_time |-> s] : s \in 0..o}

\* one test entry: testname plus host1 and/or host2
TestEntries(o) ==
    {[testname |-> "t", host1 |-> a, host2 |-> b] :
        a \in Endpoints(1, o), b \in Endpoints(2, o)}
    \cup {[testname |-> "t", host1 |-> a] : a \in Endpoints(1, o)}
    \cup {[testname |-> "t", host2 |-> b] : b \in Endpoints(2, o)}

---------------------------------------------------------------------------
(* The spawn loops, as the sequence of forks they perform *)

\* `for iface in host['interfaces']`: one fork per interface of the host
HostCollectors(h, host) ==
    [k \in 1..Len(host.interfaces) |->
        [src   |-> <<0, h, k>>,
         entry |-> [name |-> "capture process", host |-> host,
                    interface |-> host.interfaces[k]],
         ssh   |-> host.hostname,
         sleep |-> -1]]

RECURSIVE CollectorPlanFrom(_, _)
CollectorPlanFrom(ifs, h) ==
    IF h > Len(ifs) THEN <<>>
    ELSE HostCollectors(h, ifs[h]) \o CollectorPlanFrom(ifs, h + 1)

\* `for host in interfaces`
CollectorPlan(ifs) == CollectorPlanFrom(ifs, 1)

\* the fork of one endpoint of test t (ep is "host1" or "host2")
EndpointFork(t, test, ep, k) ==
    [src   |-> <<1, t, k>>,
     entry |-> [name |-> ep \o " trafgen process", host |-> test[ep].name],
     ssh   |-> test[ep].name,
     sleep |-> test[ep].start_time]

\* (mutant) the host2 endpoint of a test is forked before its host1 endpoint
TestForksHost2First(t, test) ==
    (IF "host2" \in DOMAIN test THEN <<EndpointFork(t, test, "host2", 2)>> ELSE <<>>)
    \o (IF "host1" \in DOMAIN test THEN <<EndpointFork(t, test, "host1", 1)>> ELSE <<>>)

\* (mutant) `elif 'host2' in test`: host2 is forked only when host1 is absent
TestForksElif(t, test) ==
    IF "host1" \in DOMAIN test THEN <<EndpointFork(t, test, "host1", 1)>>
    ELSE IF "host2" \in DOMAIN test THEN <<EndpointFork(t, test, "host2", 2)>>
    ELSE <<>>

\* the body of `for test in tests`: host1 first, then host2, each if present
TestForks(t, test) ==
    (IF "host1" \in DOMAIN test THEN <<EndpointFork(t, test, "host1", 1)>> ELSE <<>>)
    \o (IF "host2" \in DOMAIN test THEN <<EndpointFork(t, test, "host2", 2)>> ELSE <<>>)

RECURSIVE GeneratorPlanFrom(_, _)
GeneratorPlanFrom(ts, t) ==
    IF t > Len(ts) THEN <<>>
    ELSE TestForks(t, ts[t]) \o GeneratorPlanFrom(ts, t + 1)

\* `for test in tests`
GeneratorPlan(ts) == GeneratorPlanFrom(ts, 1)

\* collectors loop, then generators loop
SpawnPlan(ifs, ts) == CollectorPlan(ifs) \o GeneratorPlan(ts)

Plan == SpawnPlan(interfaces, tests)

\* the dict appended to pids for the child the fork returned
RegistryEntry(p, f) == [x \in {"pid"} \cup DOMAIN f.entry |->
                            IF x = "pid" THEN p ELSE f.entry[x]]

---------------------------------------------------------------------------
Children == 1..MaxProcs

\* os.system() returns 0 or a non-zero status (the remote command failed, or
\* ssh could not start the remote execution)
NonZero == 1
SystemResults == {0, NonZero}

SIGKILL == 9

\* exit status of a run that ends by normal completion (the script ends)
NormalExit == 0

NoProc == [ph |-> "none", remote |-> 0, left |-> 0, age |-> 0, wstatus |-> 0]

\* no analysis function is called in a run of the orchestrator
NoAnalysis ==
    /\ raw_log = <<>> /\ time_threshold = 0 /\ df = <<>>
    /\ log_pairs = <<>> /\ queue_threshold = 0 /\ batch_i = 0
    /\ csv_files = {} /\ processed_files = <<>> /\ errors = <<>>
    /\ throughput = <<>> /\ time = <<>> /\ bin_widths_ms = <<>>
    /\ peak_out = <<>>

\* the other scripts do not run either
NoTrafgen == waitpid_i = 0
NoWrappers == wrapper = <<>> /\ ckills = <<>>
NoExperiments ==
    /\ test_files = <<>> /\ exp_i = 0 /\ exp_pc = "off" /\ subprocess = <<>>
    /\ test_configs = {} /\ completed = {} /\ exp_out = <<>>
NoCollector ==
    /\ counters = <<>> /\ prev = <<>> /\ emitted = <<>> /\ readings = <<>>
    /\ col_pc = "off"
NoTools == NoTrafgen /\ NoWrappers /\ NoExperiments /\ NoCollector

\* the state of the orchestrator when its first loop starts
Started ==
    /\ pc = "spawn"
    /\ pid = 0
    /\ pending = FALSE
    /\ pids = <<>>
    /\ proc = [c \in Children |-> NoProc]
    /\ hpc = "idle"
    /\ sweep = 0
    /\ kills = <<>>
    /\ stdout = <<>>
    /\ stderr = {}
    /\ exitCode = -1
    /\ NoAnalysis /\ NoTools

\* descriptors whose endpoints all start at offset 0
Init ==
    /\ interfaces \in CaptureConfigs
    /\ tests \in SeqsUpTo(TestEntries(0), MaxTests)
    /\ Len(SpawnPlan(interfaces, tests)) <= MaxProcs
    /\ Started

\* descriptors with start offsets 0..MaxOffset, and no collector
InitTimed ==
    /\ interfaces = <<>>
    /\ tests \in SeqsUpTo(TestEntries(MaxOffset), MaxTests)
    /\ Len(GeneratorPlan(tests)) <= MaxTimed
    /\ Started

\* the orchestrator process is running its main flow (no handler active)
MainRuns == pc \in {"spawn", "wait"} /\ hpc = "idle"
\* the orchestrator process exists
Alive == pc \in {"spawn", "wait"}

\* children the OS has created so far, in fork order
Forked == {c \in Children : proc[c].ph # "none"}
NextChild == Cardinality(Forked) + 1

---------------------------------------------------------------------------
(* Main flow of the orchestrator *)

\* the phase in which a freshly forked wrapper starts: the remote shell runs
\* `sleep <start_time> ; <cmd>` for an endpoint, the collector for a capture
ChildStart(f) ==
    IF f.sleep >= 0
    THEN [ph |-> "sleep", remote |-> 0, left |-> f.sleep, age |-> 0, wstatus |-> 0]
    ELSE [ph |-> "run", remote |-> 0, left |-> 0, age |-> 0, wstatus |-> 0]

\* pid = os.fork() succeeds: the child exists, the parent holds its pid
Fork ==
    /\ MainRuns /\ pc = "spawn" /\ ~pending
    /\ NextChild <= Len(Plan)
    /\ proc' = [proc EXCEPT ![NextChild] = ChildStart(Plan[NextChild])]
    /\ pid' = NextChild
    /\ pending' = TRUE
    /\ UNCHANGED <<interfaces, tests, pc, pids, hpc, sweep, kills, stdout,
                   stderr, exitCode>>
    /\ UNCHANGED <<analysis, tools>>

\* pid = os.fork() raises OSError: nothing catches it
ForkFails ==
    /\ MainRuns /\ pc = "spawn" /\ ~pending
    /\ NextChild <= Len(Plan)
    /\ pc' = "crashed"
    /\ exitCode' = 1
    /\ UNCHANGED <<interfaces, tests, pid, pending, pids, proc, hpc, sweep,
                   kills, stdout, stderr>>
    /\ UNCHANGED <<analysis, tools>>

\* if pid: pids.append({...})
AppendPid ==
    /\ MainRuns /\ pc = "spawn" /\ pending
    /\ pids' = Append(pids, RegistryEntry(pid, Plan[pid]))
    /\ pending' = FALSE
    /\ UNCHANGED <<interfaces, tests, pc, pid, proc, hpc, sweep, kills,
                   stdout, stderr, exitCode>>
    /\ UNCHANGED <<analysis, tools>>

\* both loops are over: print 'Waiting ...' and enter the wait loop
StartWaiting ==
    /\ MainRuns /\ pc = "spawn" /\ ~pending
    /\ NextChild > Len(Plan)
    /\ pc' = "wait"
    /\ UNCHANGED <<interfaces, tests, pid, pending, pids, proc, hpc, sweep,
                   kills, stdout, stderr, exitCode>>
    /\ UNCHANGED <<analysis, tools>>

\* print ('Completed process with PID %i' % (status[0]), file = sys.stderr)
CompletedLine(status) == [msg |-> "Completed process with PID", pid |-> status[1]]

\* status = os.wait() returns the (pid, status) of some child that has exited
WaitReaps(c) ==
    /\ MainRuns /\ pc = "wait"
    /\ proc[c].ph = "zombie"
    /\ proc' = [proc EXCEPT ![c].ph = "reaped"]
    /\ stderr' = stderr \cup {CompletedLine(<<c, proc[c].wstatus>>)}
    /\ UNCHANGED <<interfaces, tests, pc, pid, pending, pids, hpc, sweep,
                   kills, stdout, exitCode>>
    /\ UNCHANGED <<analysis, tools>>

\* (mutant) os.wait() reports no child as soon as one child has been reaped
NoChildLeftAfterFirst == \E c \in Children : proc[c].ph = "reaped"

\* os.wait() raises ChildProcessError iff the process has no child left
NoChildLeft == \A c \in Children : proc[c].ph \in {"none", "reaped"}

\* except ChildProcessError: print 'All done'; break; the script ends
WaitAllDone ==
    /\ MainRuns /\ pc = "wait"
    /\ NoChildLeft
    /\ stderr' = stderr \cup {[msg |-> "All done", pid |-> 0]}
    /\ pc' = "done"
    /\ exitCode' = NormalExit
    /\ UNCHANGED <<interfaces, tests, pid, pending, pids, proc, hpc, sweep,
                   kills, stdout>>
    /\ UNCHANGED <<analysis, tools>>

---------------------------------------------------------------------------
(* The children *)

\* the wrapper ends with exit (0) whatever os.system() returned
WrapperExit(r) == 0

\* the remote `sleep` is over: `; <cmd>` starts
StartCmd(c) ==
    /\ Alive
    /\ proc[c].ph = "sleep" /\ proc[c].left = 0
    /\ proc' = [proc EXCEPT ![c].ph = "run"]
    /\ UNCHANGED <<interfaces, tests, pc, pid, pending, pids, hpc, sweep,
                   kills, stdout, stderr, exitCode>>
    /\ UNCHANGED <<analysis, tools>>

\* (mutant) the sleeps run one after another: only the oldest one advances
SleepersInTurn ==
    {c \in Children : proc[c].ph = "sleep"
                       /\ \A d \in Children : proc[d].ph = "sleep" => c <= d}

\* the remote shells whose `sleep` advances when a second passes: each runs
\* in its own child, so all of them
Sleepers == {c \in Children : proc[c].ph = "sleep"}

\* one second passes (no sleep is overdue): age counts the seconds since the
\* fork of a child whose command has not started
Tick ==
    /\ Alive
    /\ Sleepers # {}
    /\ \A c \in Children : proc[c].ph = "sleep" => proc[c].left > 0
    /\ proc' = [c \in Children |->
                  IF proc[c].ph # "sleep" THEN proc[c]
                  ELSE IF c \in Sleepers
                       THEN [proc[c] EXCEPT !.left = @ - 1, !.age = @ + 1]
                       ELSE [proc[c] EXCEPT !.age = @ + 1]]
    /\ UNCHANGED <<interfaces, tests, pc, pid, pending, pids, hpc, sweep,
                   kills, stdout, stderr, exitCode>>
    /\ UNCHANGED <<analysis, tools>>

\* os.system() returns r (the remote command ended, or ssh failed), then exit (0)
ChildExit(c, r) ==
    /\ Alive
    /\ \/ proc[c].ph = "run"
       \/ proc[c].ph = "sleep" /\ r # 0
    /\ proc' = [proc EXCEPT ![c].ph = "zombie", ![c].remote = r,
                            ![c].wstatus = WrapperExit(r)]
    /\ UNCHANGED <<interfaces, tests, pc, pid, pending, pids, hpc, sweep,
                   kills, stdout, stderr, exitCode>>
    /\ UNCHANGED <<analysis, tools>>

---------------------------------------------------------------------------
(* signal_handler *)

\* SIGINT is delivered: print 'Interrupted: ...' and start the loop over pids
Interrupt ==
    /\ MainRuns
    /\ hpc' = "sweep"
    /\ sweep' = 1
    /\ stdout' = Append(stdout, [msg |-> "Interrupted", pid |-> 0])
    /\ UNCHANGED <<interfaces, tests, pc, pid, pending, pids, proc, kills,
                   stderr, exitCode>>
    /\ UNCHANGED <<analysis, tools>>

\* what os.kill (p, SIGKILL) can do, from the state of process p: a child that
\* lives or is a zombie takes the signal; a reaped pid names no process
\* (ProcessLookupError) unless the OS has given the number to a stranger
KillOutcomes(p) ==
    IF proc[p].ph = "reaped" THEN {"ESRCH", "stranger"} ELSE {"delivered"}

\* one iteration of `for pid in pids`: os.kill, then print 'Process [..] terminated'
HandlerKill ==
    /\ Alive /\ hpc = "sweep"
    /\ sweep <= Len(pids)
    /\ \E o \in KillOutcomes(pids[sweep].pid) :
        LET p == pids[sweep].pid IN
        /\ kills' = Append(kills, [pid |-> p, outcome |-> o])
        /\ IF o = "ESRCH"
           THEN \* the exception leaves the handler and ends the process
                /\ pc' = "crashed"
                /\ exitCode' = 1
                /\ hpc' = "idle"
                /\ UNCHANGED <<sweep, stdout, proc>>
           ELSE /\ stdout' = Append(stdout, [msg |-> "Process terminated", pid |-> p])
                /\ sweep' = sweep + 1
                /\ proc' = IF o = "delivered" /\ proc[p].ph \in {"sleep", "run"}
                           THEN [proc EXCEPT ![p].ph = "zombie",
                                             ![p].wstatus = SIGKILL]
                           ELSE proc
                /\ UNCHANGED <<pc, exitCode, hpc>>
    /\ UNCHANGED <<interfaces, tests, pid, pending, pids, stderr>>
    /\ UNCHANGED <<analysis, tools>>

\* sys.exit(0)
HandlerExit ==
    /\ Alive /\ hpc = "sweep"
    /\ sweep > Len(pids)
    /\ pc' = "exited"
    /\ exitCode' = 0
    /\ hpc' = "idle"
    /\ UNCHANGED <<interfaces, tests, pid, pending, pids, proc, sweep, kills,
                   stdout, stderr>>
    /\ UNCHANGED <<analysis, tools>>

---------------------------------------------------------------------------
\* every step of a run whose start offsets are all 0 (no time needs to pass)
Next ==
    \/ Fork
    \/ ForkFails
    \/ AppendPid
    \/ StartWaiting
    \/ \E c \in Children : WaitReaps(c)
    \/ WaitAllDone
    \/ \E c \in Children : StartCmd(c)
    \/ \E c \in Children, r \in SystemResults : ChildExit(c, r)
    \/ Interrupt
    \/ HandlerKill
    \/ HandlerExit

Spec == Init /\ [][Next]_vars

\* a run in which no SIGINT arrives and every fork succeeds
NextUninterrupted ==
    \/ Fork
    \/ AppendPid
    \/ StartWaiting
    \/ \E c \in Children : WaitReaps(c)
    \/ WaitAllDone
    \/ \E c \in Children : StartCmd(c)
    \/ \E c \in Children, r \in SystemResults : ChildExit(c, r)

\* the orchestrator keeps running, and every child eventually exits
LiveSpec ==
    /\ Init /\ [][NextUninterrupted]_vars
    /\ WF_vars(Fork) /\ WF_vars(AppendPid) /\ WF_vars(StartWaiting)
    /\ WF_vars(\E c \in Children : WaitReaps(c)) /\ WF_vars(WaitAllDone)
    /\ \A c \in Children :
         /\ WF_vars(StartCmd(c))
         /\ WF_vars(\E r \in SystemResults : ChildExit(c, r))

\* the same run with start offsets, time passing in seconds
NextTimed == NextUninterrupted \/ Tick

TimedSpec == InitTimed /\ [][NextTimed]_vars
---------------------------------------------------------------------------
(* The collector log and process_log_to_df (log_processor.py) *)

\* the orchestrator does not run while a log is analysed
NoOrchestrator ==
    /\ interfaces = <<>> /\ tests = <<>>
    /\ pc = "off" /\ pid = 0 /\ pending = FALSE /\ pids = <<>>
    /\ proc = [c \in Children |-> NoProc]
    /\ hpc = "idle" /\ sweep = 0 /\ kills = <<>>
    /\ stdout = <<>> /\ stderr = {} /\ exitCode = -1

\* collate_stats.py, periodic_task: the fields printed for the link, then the
\* fields printed for each qdisc, in the order of the two print calls
LinkFields == <<"time", "rx_packets", "rx_bytes", "tx_packets", "tx_bytes">>
QdiscFields == <<"qdisc_type", "backlog", "bytes", "packets", "drops", "overlimits">>

RECURSIVE QdiscGroups(_, _)
QdiscGroups(qdisc, q) ==
    IF q = 0 THEN <<>>
    ELSE [k \in 1..Len(QdiscFields) |-> qdisc[QdiscFields[k]]]
         \o QdiscGroups(qdisc, q - 1)

\* one line of the log: a sample with q qdiscs that report the same stats
CollectorLine(sample, q) ==
    [k \in 1..Len(LinkFields) |-> sample[LinkFields[k]]]
    \o QdiscGroups(sample.qdisc, q)

\* position of field n in a sequence of field names (0 if absent)
IndexOf(names, n) ==
    IF \E k \in DOMAIN names : names[k] = n
    THEN CHOOSE k \in DOMAIN names : names[k] = n ELSE 0

\* the value the collector wrote for field n of the first qdisc of a line
CollectorQdiscField(line, n) == line[Len(LinkFields) + IndexOf(QdiscFields, n)]

\* values the collector can read
Backlogs == {5, 50}
Overlimits == {0, 20}

Sample(t, b, o) ==
    [time |-> t, rx_packets |-> 10, rx_bytes |-> 1000, tx_packets |-> 10,
     tx_bytes |-> 1000,
     qdisc |-> [qdisc_type |-> "fq", backlog |-> b, bytes |-> 0, packets |-> 0,
                drops |-> 0, overlimits |-> o]]

\* the elements of a set of numbers in increasing order
RECURSIVE Ascending(_)
Ascending(S) ==
    IF S = {} THEN <<>>
    ELSE LET m == CHOOSE x \in S : \A y \in S : x <= y
         IN <<m>> \o Ascending(S \ {m})

\* the data lines of a log: strictly increasing timestamps, q qdiscs per line
LogLines(T, b, o, q) ==
    LET ts == Ascending(T)
    IN [i \in 1..Len(ts) |-> CollectorLine(Sample(ts[i], b[i], o[i]), q)]

RawLogs ==
    UNION {{LogLines(T, b, o, q) :
              b \in [1..Cardinality(T) -> Backlogs],
              o \in [1..Cardinality(T) -> Overlimits],
              q \in 1..MaxQdiscs} :
           T \in {X \in SUBSET (0..MaxTime) : Cardinality(X) <= MaxSamples}}

\* time_threshold: a short cutoff and the default
TimeThresholds == {1, 100}

\* process_log_to_df: the column names assigned to the DataFrame
columns == <<"time", "rx_packets", "rx_bytes", "tx_packets", "tx_bytes", "qdisc",
             "bytes", "packets", "drops", "overlimits", "BACKLOG">>

\* df[name] of one line
Column(line, name) == line[IndexOf(columns, name)]

\* a float column can hold NaN
NaN == [nan |-> TRUE, v |-> 0]
Num(x) == [nan |-> FALSE, v |-> x]

\* the threshold of `processed_df['queue_size'] > 10`
QueueSizeLimit == 10

\* a > x on a float column: a comparison with NaN is False
GreaterOrNaNFalse(a, x) == ~a.nan /\ a.v > x

\* (mutant) the mask keeps the rows strictly below the threshold
time_mask_strict(rel, threshold) == rel < threshold

\* time_mask = relative_time <= time_threshold
time_mask(rel, threshold) == rel <= threshold

\* the elements of a sequence that satisfy keep, in order
RECURSIVE Masked(_, _, _)
Masked(seq, keep, i) ==
    IF i > Len(seq) THEN <<>>
    ELSE (IF keep[i] THEN <<seq[i]>> ELSE <<>>) \o Masked(seq, keep, i + 1)

\* processed_df['BACKLOG'].diff(): NaN first, then the difference to the
\* previous row of processed_df
Diff(rows) ==
    [i \in DOMAIN rows |->
        IF i = 1 THEN NaN ELSE Num(rows[i].BACKLOG - rows[i - 1].BACKLOG)]

Raised(e) == [ok |-> FALSE, err |-> e, rows |-> <<>>]
Returned(rows) == [ok |-> TRUE, err |-> "", rows |-> rows]

\* process_log_to_df(input_log, time_threshold), lines being the lines of
\* input_log after the header
process_log_to_df(lines, threshold) ==
    IF Len(lines) = 0 THEN Raised("EmptyDataError")        \* pd.read_csv
    ELSE IF Len(lines[1]) # Len(columns) THEN Raised("ValueError")  \* df.columns =
    ELSE IF Len(lines) < 2 THEN Raised("IndexError")       \* df['time'].iloc[1]
    ELSE
        LET tail == SubSeq(lines, 2, Len(lines))           \* .iloc[1:]
            relative_time ==
                [i \in DOMAIN tail |->
                    Column(tail[i], "time") - Column(lines[2], "time")]
            mask == [i \in DOMAIN tail |-> time_mask(relative_time[i], threshold)]
            kept == Masked([i \in DOMAIN tail |->
                               [line |-> tail[i], rel |-> relative_time[i]]],
                           mask, 1)
            processed ==
                [i \in DOMAIN kept |->
                    [time |-> Column(kept[i].line, "time"),
                     relative_time |-> kept[i].rel,
                     rx_packets |-> Column(kept[i].line, "rx_packets"),
                     rx_bytes |-> Column(kept[i].line, "rx_bytes"),
                     tx_packets |-> Column(kept[i].line, "tx_packets"),
                     tx_bytes |-> Column(kept[i].line, "tx_bytes"),
                     bytes |-> Column(kept[i].line, "bytes"),
                     packets |-> Column(kept[i].line, "packets"),
                     drops |-> Column(kept[i].line, "drops"),
                     overlimits |-> Column(kept[i].line, "overlimits"),
                     BACKLOG |-> Column(kept[i].line, "BACKLOG")]]
            queue_size == Diff(processed)
        IN Returned(
            [i \in DOMAIN processed |->
                [x \in DOMAIN processed[i] \cup {"queue_size", "queue_exists"} |->
                    IF x = "queue_size" THEN queue_size[i]
                    ELSE IF x = "queue_exists"
                    THEN (IF GreaterOrNaNFalse(queue_size[i], QueueSizeLimit)
                          THEN 1 ELSE 0)
                    ELSE processed[i][x]]])

NoBatch ==
    /\ log_pairs = <<>> /\ queue_threshold = 0 /\ batch_i = 0
    /\ csv_files = {} /\ processed_files = <<>> /\ errors = <<>>
NoPeak ==
    /\ throughput = <<>> /\ time = <<>> /\ bin_widths_ms = <<>>
    /\ peak_out = <<>>

\* one call of process_log_to_df on one log
InitSeries ==
    /\ NoOrchestrator /\ NoBatch /\ NoPeak /\ NoTools
    /\ raw_log \in RawLogs
    /\ time_threshold \in TimeThresholds
    /\ df = <<>>

CallProcessLogToDf ==
    /\ df = <<>>
    /\ df' = process_log_to_df(raw_log, time_threshold)
    /\ UNCHANGED <<raw_log, time_threshold, orchestrator, batch, peak, tools>>

NextSeries == CallProcessLogToDf

SeriesSpec == InitSeries /\ [][NextSeries]_vars

---------------------------------------------------------------------------
(* process_all_logs (log_processor.py) *)

MaxPairs == 2

\* the log files a raw_data folder can hold: a log without data lines, a log
\* with one sample, and logs with three samples, one second apart, whose
\* qdisc counter stays at 0 or rises by 20 in the last sample
BatchLogs ==
    {LogLines(T, [i \in 1..Cardinality(T) |-> 5], o, 1) :
        T \in {{}, {0}, {0, 1, 2}},
        o \in {[i \in 1..3 |-> 0], [i \in 1..3 |-> IF i = 3 THEN 20 ELSE 0]}}

\* find_log_pairs(): base_name -> (r1 file, r2 file); the base name of a
\* pair is its position
LogPairs == SeqsUpTo([downstream_log : BatchLogs, upstream_log : BatchLogs], MaxPairs)

\* queue_threshold: the default and a value a caller passes
QueueThresholds == {10, 50}

ds_output(base_name) == [base_name |-> base_name, file |-> "downstream.csv"]
us_output(base_name) == [base_name |-> base_name, file |-> "upstream.csv"]

InitBatch ==
    /\ NoOrchestrator /\ NoPeak /\ NoTools
    /\ raw_log = <<>> /\ df = <<>>
    /\ time_threshold \in TimeThresholds
    /\ queue_threshold \in QueueThresholds
    /\ log_pairs \in LogPairs
    /\ batch_i = 0
    /\ csv_files = {} /\ processed_files = <<>> /\ errors = <<>>

\* the files one iteration writes: both to_csv calls come after both
\* process_log_to_df calls, inside the same try block
Written(base_name, ds_df, us_df) ==
    IF ~ds_df.ok \/ ~us_df.ok THEN {}
    ELSE {[name |-> ds_output(base_name), rows |-> ds_df.rows],
          [name |-> us_output(base_name), rows |-> us_df.rows]}

\* one iteration of `for base_name, (downstream_log, upstream_log) in ...`
ProcessPair ==
    /\ batch_i < Len(log_pairs)
    /\ LET base_name == batch_i + 1
           ds_df == process_log_to_df(log_pairs[base_name].downstream_log,
                                      time_threshold)
           us_df == process_log_to_df(log_pairs[base_name].upstream_log,
                                      time_threshold)
           written == Written(base_name, ds_df, us_df)
       IN /\ batch_i' = base_name
          /\ csv_files' = csv_files \cup written
          /\ IF ~ds_df.ok
             THEN /\ errors' = Append(errors, [base_name |-> base_name, e |-> ds_df.err])
                  /\ UNCHANGED processed_files
             ELSE IF ~us_df.ok
             THEN /\ errors' = Append(errors, [base_name |-> base_name, e |-> us_df.err])
                  /\ UNCHANGED processed_files
             ELSE /\ processed_files' =
                        processed_files \o <<ds_output(base_name), us_output(base_name)>>
                  /\ UNCHANGED errors
    /\ UNCHANGED <<log_pairs, queue_threshold, orchestrator, series, peak, tools>>

NextBatch == ProcessPair

BatchSpec == InitBatch /\ [][NextBatch]_vars

---------------------------------------------------------------------------
(* peak_speed_detect (peak_speed_detect.py) *)

MaxLen == 8
MaxWidth == 3

\* throughput values
Rates == {0, 1}
\* seconds between two samples
SampleIntervals == {1, 2}
\* `* 1000`: seconds to milliseconds
MsPerSecond == 1000
\* medfilt(throughput, 15)
KernelSize == 15

\* time stamps of k samples taken every dt seconds
UniformTime(k, dt) == [i \in 1..k |-> (i - 1) * dt]

\* round(p / q) for p >= 0, q > 0: Python rounds halves to the even integer
RoundHalfEven(p, q) ==
    LET fl == p \div q
        rem == p % q
    IN IF 2 * rem < q THEN fl
       ELSE IF 2 * rem > q THEN fl + 1
       ELSE IF fl % 2 = 0 THEN fl ELSE fl + 1

\* round(width / mean_dt), mean_dt = np.mean(np.diff(time)) * 1000; the mean
\* of the differences is (last - first) / (len - 1)
Step(width, t) ==
    RoundHalfEven(width * (Len(t) - 1), (t[Len(t)] - t[1]) * MsPerSecond)

\* a numpy array: the elements of f as a sequence of values
Array(f) == SubSeq(f, 1, Len(f))

Zeros(k) == [i \in 1..k |-> 0]

Maximum(S) == CHOOSE x \in S : \A y \in S : y <= x

\* x[j] with 0-based j; ZeroPadded is the value medfilt sees outside the array
At(x, j) == x[j + 1]
ZeroPadded(x, j) == IF j >= 0 /\ j < Len(x) THEN x[j + 1] ELSE 0

\* scipy.signal.medfilt(x, KernelSize): the median of the window centred on
\* each element, the array being extended with zeros
medfilt(x) ==
    LET half == KernelSize \div 2
        window(j) == (j - half)..(j + half)
        median(j) ==
            CHOOSE v \in {ZeroPadded(x, k) : k \in window(j)} :
                /\ Cardinality({k \in window(j) : ZeroPadded(x, k) <= v}) > half
                /\ Cardinality({k \in window(j) : ZeroPadded(x, k) < v}) <= half
    IN Array([i \in 1..Len(x) |-> median(i - 1)])

\* binned_peaks_st: for idx in range(0, len_data - S, S) the block
\* [idx, idx + S) gets the maximum of the block
ShortTermPeaks(x, S) ==
    Array([i \in 1..Len(x) |->
              LET idx == ((i - 1) \div S) * S
              IN IF idx < Len(x) - S
                 THEN Maximum({At(x, k) : k \in idx..(idx + S - 1)})
                 ELSE 0])

\* (mutant) the window ends before the current index
LongTermWindowBefore(idx, L) == (idx - L)..(idx - 1)

\* tpf[idx - long_term_step : idx + long_term_step]
LongTermWindow(idx, L) == (idx - L)..(idx + L - 1)

\* binned_peaks_lt: for idx in range(L, len_data - L) the maximum of the
\* filtered series over the window around idx
LongTermPeaks(tpf, L) ==
    Array([i \in 1..Len(tpf) |->
              LET idx == i - 1
              IN IF idx >= L /\ idx < Len(tpf) - L
                 THEN Maximum({At(tpf, k) : k \in LongTermWindow(idx, L)})
                 ELSE 0])

\* (mutant) the padding is left in place
StripNone(x, L) == x

\* x[long_term_step:]
Strip(x, L) == SubSeq(x, L + 1, Len(x))

PeakRaised(e) ==
    [ok |-> FALSE, err |-> e, score |-> <<>>, binned_peaks_lt |-> <<>>, tpf |-> <<>>]

peak_speed_detect(tp, t, widths) ==
    IF Len(t) < 2 THEN PeakRaised("ValueError")          \* round(nan)
    ELSE
        LET short_term_step == Step(widths[1], t)
            long_term_step == Step(widths[2], t)
            padded == Zeros(long_term_step) \o tp
            len_data == Len(padded)
        IN IF short_term_step = 0 THEN PeakRaised("ValueError")   \* range step 0
           ELSE IF long_term_step = 0 /\ len_data > 0
           THEN PeakRaised("ValueError")                          \* np.max of empty
           ELSE
               LET binned_peaks_st == ShortTermPeaks(padded, short_term_step)
                   tpf == medfilt(padded)
                   binned_peaks_lt == LongTermPeaks(tpf, long_term_step)
                   \* binned_peaks_st > 0.7 * binned_peaks_lt
                   score == [i \in 1..len_data |->
                                10 * binned_peaks_st[i] > 7 * binned_peaks_lt[i]]
               IN [ok |-> TRUE, err |-> "",
                   score |-> Strip(score, long_term_step),
                   binned_peaks_lt |-> Strip(binned_peaks_lt, long_term_step),
                   tpf |-> Strip(tpf, long_term_step)]

NoSeries == raw_log = <<>> /\ time_threshold = 0 /\ df = <<>>

\* one call of peak_speed_detect; the time array has the length of the
\* throughput array or one element more
InitPeak ==
    /\ NoOrchestrator /\ NoSeries /\ NoBatch /\ NoTools
    /\ throughput \in SeqsUpTo(Rates, MaxLen)
    /\ \E k \in {Len(throughput), Len(throughput) + 1}, dt \in SampleIntervals :
          time = UniformTime(k, dt)
    /\ \E s \in 1..MaxWidth, l \in 1..MaxWidth :
          bin_widths_ms = <<s * MsPerSecond, l * MsPerSecond>>
    /\ peak_out = <<>>

CallPeakSpeedDetect ==
    /\ peak_out = <<>>
    /\ peak_out' = peak_speed_detect(throughput, time, bin_widths_ms)
    /\ UNCHANGED <<throughput, time, bin_widths_ms, orchestrator, series,
                   batch, tools>>

NextPeak == CallPeakSpeedDetect

PeakSpec == InitPeak /\ [][NextPeak]_vars

---------------------------------------------------------------------------
(* The generator-only script (perfmon/trafgen.py) *)

\* the first fork of `for test in tests`: the parent stores test['host1'],
\* the child runs ssh against test['host1']; a missing key raises KeyError
TrafgenHost1Fork(t, test) ==
    LET has == "host1" \in DOMAIN test
    IN [src |-> <<1, t, 1>>,
        parent_ok |-> has,
        entry |-> [host |-> IF has THEN test.host1.name ELSE 0],
        child_ok |-> has,
        ssh |-> IF has THEN test.host1.name ELSE 0,
        sleep |-> IF has THEN test.host1.start_time ELSE 0]

\* the second fork: the parent stores test['host1']['name'] again, the child
\* runs ssh against test['host2']
TrafgenHost2Fork(t, test) ==
    LET has1 == "host1" \in DOMAIN test
        has2 == "host2" \in DOMAIN test
    IN [src |-> <<1, t, 2>>,
        parent_ok |-> has1,
        entry |-> [host |-> IF has1 THEN test.host1.name ELSE 0],
        child_ok |-> has2,
        ssh |-> IF has2 THEN test.host2.name ELSE 0,
        sleep |-> IF has2 THEN test.host2.start_time ELSE 0]

\* `for test in tests`: two forks per test, up to the first fork whose
\* registry append raises KeyError in the parent
RECURSIVE TrafgenPlanFrom(_, _)
TrafgenPlanFrom(ts, t) ==
    IF t > Len(ts) THEN <<>>
    ELSE IF ~TrafgenHost1Fork(t, ts[t]).parent_ok
    THEN <<TrafgenHost1Fork(t, ts[t])>>
    ELSE <<TrafgenHost1Fork(t, ts[t]), TrafgenHost2Fork(t, ts[t])>>
         \o TrafgenPlanFrom(ts, t + 1)

TrafgenPlan == TrafgenPlanFrom(tests, 1)

\* exit status of a Python process that ends with an uncaught exception
UncaughtExit == 1

InitTrafgen ==
    /\ interfaces = <<>>
    /\ tests \in SeqsUpTo(TestEntries(0), MaxTests)
    /\ Len(TrafgenPlanFrom(tests, 1)) <= MaxProcs
    /\ Started

\* pid = os.fork(): a child whose command line raises KeyError ends at once
\* with a traceback
TrafgenFork ==
    /\ pc = "spawn" /\ ~pending
    /\ NextChild <= Len(TrafgenPlan)
    /\ proc' = [proc EXCEPT ![NextChild] =
                   IF TrafgenPlan[NextChild].child_ok
                   THEN ChildStart(TrafgenPlan[NextChild])
                   ELSE [NoProc EXCEPT !.ph = "zombie", !.wstatus = UncaughtExit]]
    /\ pid' = NextChild
    /\ pending' = TRUE
    /\ UNCHANGED <<interfaces, tests, pc, pids, hpc, sweep, kills, stdout,
                   stderr, exitCode>>
    /\ UNCHANGED <<analysis, tools>>

\* if pid: pids.append({'pid': pid, 'host': ...}); KeyError ends the script
TrafgenAppend ==
    /\ pc = "spawn" /\ pending
    /\ pending' = FALSE
    /\ IF TrafgenPlan[pid].parent_ok
       THEN /\ pids' = Append(pids, RegistryEntry(pid, TrafgenPlan[pid]))
            /\ UNCHANGED <<pc, exitCode>>
       ELSE /\ pc' = "crashed"
            /\ exitCode' = UncaughtExit
            /\ UNCHANGED pids
    /\ UNCHANGED <<interfaces, tests, pid, proc, hpc, sweep, kills, stdout, stderr>>
    /\ UNCHANGED <<analysis, tools>>

\* print ('Waiting for pending tasks to complete')
TrafgenStartWaiting ==
    /\ pc = "spawn" /\ ~pending
    /\ NextChild > Len(TrafgenPlan)
    /\ pc' = "wait"
    /\ UNCHANGED <<interfaces, tests, pid, pending, pids, proc, hpc, sweep,
                   kills, stdout, stderr, exitCode>>
    /\ UNCHANGED <<analysis, tools>>

\* one iteration of `for pid in pids`: os.waitpid (pid['pid'], 0) returns when
\* that child has exited; print 'Completed on host <the entry's host>'
TrafgenWaitpid ==
    /\ pc = "wait" /\ waitpid_i < Len(pids)
    /\ LET e == pids[waitpid_i + 1]
       IN /\ proc[e.pid].ph = "zombie"
          /\ proc' = [proc EXCEPT ![e.pid].ph = "reaped"]
          /\ stdout' = Append(stdout, [msg |-> "Completed on host", host |-> e.host])
    /\ waitpid_i' = waitpid_i + 1
    /\ UNCHANGED <<interfaces, tests, pc, pid, pending, pids, hpc, sweep, kills,
                   stderr, exitCode>>
    /\ UNCHANGED <<analysis, wrappers, experiments, collector>>

\* the loop is over: the script ends
TrafgenDone ==
    /\ pc = "wait" /\ waitpid_i = Len(pids)
    /\ pc' = "done"
    /\ exitCode' = NormalExit
    /\ UNCHANGED <<interfaces, tests, pid, pending, pids, proc, hpc, sweep,
                   kills, stdout, stderr>>
    /\ UNCHANGED <<analysis, tools>>

NextTrafgen ==
    \/ TrafgenFork
    \/ TrafgenAppend
    \/ TrafgenStartWaiting
    \/ TrafgenWaitpid
    \/ TrafgenDone
    \/ \E c \in Children : StartCmd(c)
    \/ \E c \in Children, r \in SystemResults : ChildExit(c, r)

TrafgenSpec == InitTrafgen /\ [][NextTrafgen]_vars

---------------------------------------------------------------------------
(* The forked wrappers and SIGINT (simultaneous_capture_trafgen.py) *)

MaxWrappers == 2

\* a wrapper starts as a copy of the orchestrator at the fork: it has the
\* SIGINT handler installed and the registry as it was before its own append
WrapperStart == [at |-> "start", i |-> 0, pids |-> pids]

\* the wrapper of child c runs
Running(c) == c \in DOMAIN wrapper /\ proc[c].ph \in {"sleep", "run"}

InitWrappers ==
    /\ interfaces \in CaptureConfigs
    /\ tests \in SeqsUpTo(TestEntries(0), MaxTests)
    /\ Len(SpawnPlan(interfaces, tests)) <= MaxWrappers
    /\ Started

\* pid = os.fork(), seen from both sides
WrapperFork ==
    /\ MainRuns /\ pc = "spawn" /\ ~pending
    /\ NextChild <= Len(Plan)
    /\ proc' = [proc EXCEPT ![NextChild] = ChildStart(Plan[NextChild])]
    /\ wrapper' = Append(wrapper, WrapperStart)
    /\ pid' = NextChild
    /\ pending' = TRUE
    /\ UNCHANGED <<interfaces, tests, pc, pids, hpc, sweep, kills, stdout,
                   stderr, exitCode, ckills>>
    /\ UNCHANGED <<analysis, trafgen, experiments, collector>>

\* the wrapper calls os.system(): system() ignores SIGINT in the caller
\* until the command has ended
EnterSystem(c) ==
    /\ Running(c) /\ wrapper[c].at = "start"
    /\ wrapper' = [wrapper EXCEPT ![c].at = "system"]
    /\ UNCHANGED <<orchestrator, ckills>>
    /\ UNCHANGED <<analysis, trafgen, experiments, collector>>

\* os.system() returns r: the handler of the wrapper is in force again
SystemReturns(c, r) ==
    /\ Running(c) /\ wrapper[c].at = "system"
    /\ wrapper' = [wrapper EXCEPT ![c].at = "after"]
    /\ proc' = [proc EXCEPT ![c].remote = r]
    /\ UNCHANGED <<interfaces, tests, pc, pid, pending, pids, hpc, sweep,
                   kills, stdout, stderr, exitCode, ckills>>
    /\ UNCHANGED <<analysis, trafgen, experiments, collector>>

\* exit (0)
WrapperExits(c) ==
    /\ Running(c) /\ wrapper[c].at = "after"
    /\ wrapper' = [wrapper EXCEPT ![c].at = "exited"]
    /\ proc' = [proc EXCEPT ![c].ph = "zombie",
                            ![c].wstatus = WrapperExit(proc[c].remote)]
    /\ UNCHANGED <<interfaces, tests, pc, pid, pending, pids, hpc, sweep,
                   kills, stdout, stderr, exitCode, ckills>>
    /\ UNCHANGED <<analysis, trafgen, experiments, collector>>

\* SIGINT reaches the wrapper outside os.system(): the inherited
\* signal_handler starts in the wrapper
WrapperSigint(c) ==
    /\ Running(c) /\ wrapper[c].at \in {"start", "after"}
    /\ wrapper' = [wrapper EXCEPT ![c].at = "handler", ![c].i = 1]
    /\ UNCHANGED <<orchestrator, ckills>>
    /\ UNCHANGED <<analysis, trafgen, experiments, collector>>

\* one iteration of `for pid in pids` in the wrapper, over its copy of pids
WrapperKill(c) ==
    /\ Running(c) /\ wrapper[c].at = "handler"
    /\ wrapper[c].i <= Len(wrapper[c].pids)
    /\ \E o \in KillOutcomes(wrapper[c].pids[wrapper[c].i].pid) :
        LET p == wrapper[c].pids[wrapper[c].i].pid IN
        /\ ckills' = Append(ckills, [by |-> c, pid |-> p, outcome |-> o])
        /\ IF o = "ESRCH"
           THEN \* the exception ends the wrapper
                /\ wrapper' = [wrapper EXCEPT ![c].at = "exited"]
                /\ proc' = [proc EXCEPT ![c].ph = "zombie",
                                        ![c].wstatus = UncaughtExit]
           ELSE /\ wrapper' = [wrapper EXCEPT ![c].i = @ + 1]
                /\ proc' = IF o = "delivered" /\ proc[p].ph \in {"sleep", "run"}
                           THEN [proc EXCEPT ![p].ph = "zombie",
                                             ![p].wstatus = SIGKILL]
                           ELSE proc
    /\ UNCHANGED <<interfaces, tests, pc, pid, pending, pids, hpc, sweep,
                   kills, stdout, stderr, exitCode>>
    /\ UNCHANGED <<analysis, trafgen, experiments, collector>>

\* sys.exit(0) in the wrapper
WrapperHandlerExit(c) ==
    /\ Running(c) /\ wrapper[c].at = "handler"
    /\ wrapper[c].i > Len(wrapper[c].pids)
    /\ wrapper' = [wrapper EXCEPT ![c].at = "exited"]
    /\ proc' = [proc EXCEPT ![c].ph = "zombie", ![c].wstatus = 0]
    /\ UNCHANGED <<interfaces, tests, pc, pid, pending, pids, hpc, sweep,
                   kills, stdout, stderr, exitCode, ckills>>
    /\ UNCHANGED <<analysis, trafgen, experiments, collector>>

NextWrappers ==
    \/ WrapperFork
    \/ AppendPid
    \/ StartWaiting
    \/ \E c \in Children : WaitReaps(c)
    \/ WaitAllDone
    \/ Interrupt
    \/ HandlerKill
    \/ HandlerExit
    \/ \E c \in Children : EnterSystem(c)
    \/ \E c \in Children, r \in SystemResults : SystemReturns(c, r)
    \/ \E c \in Children : WrapperExits(c)
    \/ \E c \in Children : WrapperSigint(c)
    \/ \E c \in Children : WrapperKill(c)
    \/ \E c \in Children : WrapperHandlerExit(c)

WrappersSpec == InitWrappers /\ [][NextWrappers]_vars

---------------------------------------------------------------------------
(* The experiment runner (perfmon/run_experiments.py) *)

MaxFiles == 3

NotStarted == [st |-> "none", code |-> 0]

\* test_files = glob(test_configs_dir/*.json): the files 1..n
InitExperiments ==
    /\ NoAnalysis /\ NoTrafgen /\ NoWrappers /\ NoCollector
    /\ interfaces = <<>> /\ tests = <<>>
    /\ pc = "off" /\ pid = 0 /\ pending = FALSE /\ pids = <<>>
    /\ proc = [c \in Children |-> NoProc]
    /\ hpc = "idle" /\ sweep = 0 /\ kills = <<>>
    /\ stdout = <<>> /\ stderr = {} /\ exitCode = -1
    /\ \E n \in 0..MaxFiles : test_files = [k \in 1..n |-> k]
    /\ test_configs = {test_files[k] : k \in DOMAIN test_files}
    /\ completed = {}
    /\ subprocess = [k \in DOMAIN test_files |-> NotStarted]
    /\ exp_i = 1
    /\ exp_pc = IF test_files = <<>> THEN "done" ELSE "popen"
    /\ exp_out = <<>>

\* (mutant) the file is moved before the wait
StepAfterMoveFirst(step) ==
    CASE step = "popen" -> "move"
      [] step = "move" -> "wait"
      [] step = "wait" -> "sleep"
      [] step = "sleep" -> "finish"

\* the statements of the try block, in order
StepAfter(step) ==
    CASE step = "popen" -> "wait"
      [] step = "wait" -> "move"
      [] step = "move" -> "sleep"
      [] step = "sleep" -> "finish"

\* an exception in the try block: `except Exception` prints it, then the
\* code after the try statement runs
Excepted(line) ==
    /\ exp_out' = Append(exp_out, line)
    /\ exp_pc' = "finish"

\* process = subprocess.Popen(cmd.split()) starts the orchestrator
Popen ==
    /\ exp_pc = "popen"
    /\ subprocess' = [subprocess EXCEPT ![exp_i] = [st |-> "running", code |-> 0]]
    /\ exp_out' = Append(exp_out, [msg |-> "Running experiment for", file |-> test_files[exp_i]])
    /\ exp_pc' = StepAfter("popen")
    /\ UNCHANGED <<test_files, exp_i, test_configs, completed>>
    /\ UNCHANGED <<orchestrator, analysis, trafgen, wrappers, collector>>

\* subprocess.Popen raises (the script is missing or cannot be executed)
PopenRaises ==
    /\ exp_pc = "popen"
    /\ Excepted([msg |-> "Unexpected error during experiment", file |-> test_files[exp_i]])
    /\ UNCHANGED <<test_files, exp_i, subprocess, test_configs, completed>>
    /\ UNCHANGED <<orchestrator, analysis, trafgen, wrappers, collector>>

\* the process of experiment e ends with status r
SubprocessExits(e, r) ==
    /\ e \in DOMAIN subprocess /\ subprocess[e].st = "running"
    /\ subprocess' = [subprocess EXCEPT ![e] = [st |-> "exited", code |-> r]]
    /\ UNCHANGED <<test_files, exp_i, exp_pc, test_configs, completed, exp_out>>
    /\ UNCHANGED <<orchestrator, analysis, trafgen, wrappers, collector>>

\* process.wait() returns once the process has ended
WaitReturns ==
    /\ exp_pc = "wait"
    /\ subprocess[exp_i].st = "exited"
    /\ exp_out' = Append(exp_out, [msg |-> "Completed experiment", file |-> test_files[exp_i]])
    /\ exp_pc' = StepAfter("wait")
    /\ UNCHANGED <<test_files, exp_i, subprocess, test_configs, completed>>
    /\ UNCHANGED <<orchestrator, analysis, trafgen, wrappers, collector>>

\* shutil.move(test_file, completed_file_path)
Move ==
    /\ exp_pc = "move"
    /\ test_configs' = test_configs \ {test_files[exp_i]}
    /\ completed' = completed \cup {test_files[exp_i]}
    /\ exp_out' = Append(exp_out, [msg |-> "Moved", file |-> test_files[exp_i]])
    /\ exp_pc' = StepAfter("move")
    /\ UNCHANGED <<test_files, exp_i, subprocess>>
    /\ UNCHANGED <<orchestrator, analysis, trafgen, wrappers, collector>>

\* shutil.move raises (the destination cannot be written)
MoveRaises ==
    /\ exp_pc = "move"
    /\ Excepted([msg |-> "Unexpected error during experiment", file |-> test_files[exp_i]])
    /\ UNCHANGED <<test_files, exp_i, subprocess, test_configs, completed>>
    /\ UNCHANGED <<orchestrator, analysis, trafgen, wrappers, collector>>

\* time.sleep(20)
Sleep20 ==
    /\ exp_pc = "sleep"
    /\ exp_out' = Append(exp_out, [msg |-> "Waiting 20 seconds", file |-> test_files[exp_i]])
    /\ exp_pc' = StepAfter("sleep")
    /\ UNCHANGED <<test_files, exp_i, subprocess, test_configs, completed>>
    /\ UNCHANGED <<orchestrator, analysis, trafgen, wrappers, collector>>

\* print 'Finished experiment'; the for loop takes the next file or ends
FinishExperiment ==
    /\ exp_pc = "finish"
    /\ exp_out' = Append(exp_out, [msg |-> "Finished experiment", file |-> test_files[exp_i]])
    /\ exp_i' = exp_i + 1
    /\ exp_pc' = IF exp_i < Len(test_files) THEN "popen" ELSE "done"
    /\ UNCHANGED <<test_files, subprocess, test_configs, completed>>
    /\ UNCHANGED <<orchestrator, analysis, trafgen, wrappers, collector>>

NextExperiments ==
    \/ Popen
    \/ PopenRaises
    \/ \E e \in 1..MaxFiles, r \in SystemResults : SubprocessExits(e, r)
    \/ WaitReturns
    \/ Move
    \/ MoveRaises
    \/ Sleep20
    \/ FinishExperiment

ExperimentsSpec == InitExperiments /\ [][NextExperiments]_vars

---------------------------------------------------------------------------
(* The collector's sampling loop (perfmon/collate_stats.py) *)

MaxTicks == 3

\* the four link counters that periodic_task reads
CounterFields == {"rx_packets", "rx_bytes", "tx_packets", "tx_bytes"}

\* what one direction of the link carries between two ticks: no packet, one
\* packet of 2 bytes, or two packets of 5 bytes in total
Carried == {<<0, 0>>, <<1, 2>>, <<2, 5>>}

\* the counters after the link has carried rx and tx
Advanced(c, rx, tx) ==
    [rx_packets |-> c.rx_packets + rx[1], rx_bytes |-> c.rx_bytes + rx[2],
     tx_packets |-> c.tx_packets + tx[1], tx_bytes |-> c.tx_bytes + tx[2]]

\* the counters of the interface when the collector starts: a fresh link, or
\* a link that has carried traffic before
StartCounters ==
    {[f \in CounterFields |-> 0],
     [rx_packets |-> 3, rx_bytes |-> 7, tx_packets |-> 3, tx_bytes |-> 7]}

\* prev_packets_rx = 0, prev_packets_tx = 0, prev_bytes_rx = 0, prev_bytes_tx = 0
InitCollector ==
    /\ NoAnalysis /\ NoTrafgen /\ NoWrappers /\ NoExperiments
    /\ interfaces = <<>> /\ tests = <<>>
    /\ pc = "off" /\ pid = 0 /\ pending = FALSE /\ pids = <<>>
    /\ proc = [c \in Children |-> NoProc]
    /\ hpc = "idle" /\ sweep = 0 /\ kills = <<>>
    /\ stdout = <<>> /\ stderr = {} /\ exitCode = -1
    /\ counters \in StartCounters
    /\ prev = [f \in CounterFields |-> 0]
    /\ emitted = <<>>
    /\ readings = <<>>
    /\ col_pc = "loop"

\* the values printed after the time stamp: each counter minus its prev_*
Deltas(stats, pv) ==
    [rx_packets |-> stats.rx_packets - pv.rx_packets,
     rx_bytes |-> stats.rx_bytes - pv.rx_bytes,
     tx_packets |-> stats.tx_packets - pv.tx_packets,
     tx_bytes |-> stats.tx_bytes - pv.tx_bytes]

\* (mutant) the byte counters are stored crosswise
UpdatePrevCrossed(stats) ==
    [rx_packets |-> stats.rx_packets, rx_bytes |-> stats.tx_bytes,
     tx_packets |-> stats.tx_packets, tx_bytes |-> stats.rx_bytes]

\* prev_packets_rx = packets_rx; prev_bytes_rx = bytes_rx; ...
UpdatePrev(stats) ==
    [rx_packets |-> stats.rx_packets, rx_bytes |-> stats.rx_bytes,
     tx_packets |-> stats.tx_packets, tx_bytes |-> stats.tx_bytes]

\* one tick: the link has carried rx and tx since the last tick; periodic_task
\* reads the counters, prints the deltas and stores the counters; without
\* qdisc info the else branch then raises NameError (`interface` is not
\* defined) and the collector ends
PeriodicTask(rx, tx, qdisc_info) ==
    /\ col_pc = "loop"
    /\ Len(readings) < MaxTicks
    /\ LET stats == Advanced(counters, rx, tx)
       IN /\ counters' = stats
          /\ readings' = Append(readings, stats)
          /\ emitted' = Append(emitted, Deltas(stats, prev))
          /\ prev' = UpdatePrev(stats)
    /\ col_pc' = IF qdisc_info THEN "loop" ELSE "crashed"
    /\ UNCHANGED <<orchestrator, analysis, trafgen, wrappers, experiments>>

\* if (time.time() - t0) > args.time: break
TimeIsUp ==
    /\ col_pc = "loop"
    /\ readings # <<>>
    /\ col_pc' = "done"
    /\ UNCHANGED <<counters, prev, emitted, readings>>
    /\ UNCHANGED <<orchestrator, analysis, trafgen, wrappers, experiments>>

NextCollector ==
    \/ \E rx \in Carried, tx \in Carried, q \in BOOLEAN : PeriodicTask(rx, tx, q)
    \/ TimeIsUp

CollectorSpec == InitCollector /\ [][NextCollector]_vars

---------------------------------------------------------------------------
(* Properties *)

PlanChildren == 1..Len(Plan)
AllDone == [msg |-> "All done", pid |-> 0] \in stderr
Reaped == {c \in Children : proc[c].ph = "reaped"}

\* C1: the wait loop prints 'All done' and returns only when every child of
\* the plan has been forked, has exited and has been reaped, whatever the
\* order of the exits; and once the wait loop is entered, it returns
\* (given that every child eventually exits and no SIGINT ends the run).
C1_WaitReturnsAfterAllReaped ==
    /\ [](AllDone \/ pc = "done" =>
            /\ \A c \in PlanChildren : proc[c].ph = "reaped"
            /\ \A c \in PlanChildren :
                 CompletedLine(<<c, proc[c].wstatus>>) \in stderr)
    /\ (pc = "wait") ~> (pc = "done")

\* a run that returned from the wait loop after reaping a collector and
\* a generator
C1_Witness ==
    /\ pc = "done" /\ AllDone
    /\ \E c, d \in Reaped : Plan[c].sleep < 0 /\ Plan[d].sleep >= 0
    /\ Cardinality(Reaped) = MaxProcs

Interrupted == \E i \in DOMAIN stdout : stdout[i].msg = "Interrupted"
Terminated == pc \in {"done", "exited", "crashed"}
Killed(p) == \E k \in DOMAIN kills : kills[k].pid = p
KillLogged(p) ==
    \E i \in DOMAIN stdout : stdout[i] = [msg |-> "Process terminated", pid |-> p]

\* C2: once SIGINT has been handled and the orchestrator has ended, every
\* handle of the registry whose child had not been reaped has been sent
\* SIGKILL and has its 'terminated' line, and nothing was reaped meanwhile.
C2_InterruptKillsEveryLiveHandle ==
    Interrupted /\ Terminated =>
        \A i \in DOMAIN pids :
            proc[pids[i].pid].ph # "reaped" =>
                Killed(pids[i].pid) /\ KillLogged(pids[i].pid)

\* C3: no os.kill of the sweep is aimed at a pid whose child has already
\* been reaped (a reaped handle has left the registry).
C3_NoKillOfReapedHandle ==
    \A k \in DOMAIN kills : proc[kills[k].pid].ph # "reaped"

\* C4: a kill that fails (no such process) does not end the sweep: the
\* orchestrator still ends through sys.exit of the handler, after one
\* os.kill per handle of the registry.
C4_FailedKillDoesNotStopSweep ==
    Terminated /\ (\E k \in DOMAIN kills : kills[k].outcome = "ESRCH") =>
        pc = "exited" /\ Len(kills) = Len(pids)

\* rank of a registry entry in the order the spec states: collectors, then
\* host1 endpoints, then host2 endpoints
Rank(e) ==
    IF e.name = "capture process" THEN 0
    ELSE IF e.name = "host1 trafgen process" THEN 1 ELSE 2

Before(a, b) ==
    \/ a[1] < b[1]
    \/ a[1] = b[1] /\ a[2] < b[2]
    \/ a[1] = b[1] /\ a[2] = b[2] /\ a[3] < b[3]

\* position in the descriptors of the child with pid p
SrcOf(p) == Plan[p].src

RECURSIVE SumIfaces(_, _)
SumIfaces(ifs, h) ==
    IF h > Len(ifs) THEN 0 ELSE Len(ifs[h].interfaces) + SumIfaces(ifs, h + 1)

EndpointsPresent(ep) == {t \in DOMAIN tests : ep \in DOMAIN tests[t]}
EntriesNamed(n) == {i \in DOMAIN pids : pids[i].name = n}

\* C6: when the spawn phase has completed, the registry holds one handle per
\* (host, interface) pair and one per host1/host2 endpoint present, each pid
\* once, and the pids of the registry are exactly the children forked.
C6_RegistryExact ==
    pc \in {"wait", "done"} =>
        /\ Len(pids) = SumIfaces(interfaces, 1)
                        + Cardinality(EndpointsPresent("host1"))
                        + Cardinality(EndpointsPresent("host2"))
        /\ \A h \in DOMAIN interfaces : \A k \in DOMAIN interfaces[h].interfaces :
              Cardinality({i \in EntriesNamed("capture process") :
                  /\ pids[i].host = interfaces[h]
                  /\ pids[i].interface = interfaces[h].interfaces[k]}) = 1
        /\ Cardinality(EntriesNamed("host1 trafgen process"))
              = Cardinality(EndpointsPresent("host1"))
        /\ Cardinality(EntriesNamed("host2 trafgen process"))
              = Cardinality(EndpointsPresent("host2"))
        /\ \A i, j \in DOMAIN pids : pids[i].pid = pids[j].pid => i = j
        /\ {pids[i].pid : i \in DOMAIN pids} = Forked

\* the wait loop is reached with a collector and both endpoints of one test
C6_Witness ==
    /\ pc = "wait"
    /\ Len(pids) = 3
    /\ EntriesNamed("capture process") # {}
    /\ \E t \in DOMAIN tests : DOMAIN tests[t] = {"testname", "host1", "host2"}

\* C7: a spawn failure for one entry does not stop the spawning: when the run
\* has ended on a failed fork, every later entry of the plan has been forked.
C7_SpawnFailureDoesNotStopSpawning ==
    pc = "crashed" /\ ~Interrupted =>
        \A c \in PlanChildren : c > NextChild => proc[c].ph # "none"

\* C8: a child whose remote command ended with a non-zero status has, once
\* reaped, a line in the log that is not the line of a successful completion.
C8_ChildFailureIsLogged ==
    \A c \in Reaped :
        proc[c].remote # 0 =>
            \E l \in stderr : l.pid = c /\ l.msg # "Completed process with PID"

\* C9: a run ended by the handler's sys.exit has an exit status that differs
\* from the one of a normal completion.
C9_InterruptExitIsDistinct ==
    pc = "exited" => exitCode # NormalExit

\* the endpoints among the children of the plan
EndpointChildren == {c \in PlanChildren : Plan[c].sleep >= 0}

\* C10: an endpoint's command runs only when its own sleep is over, exactly
\* start_time seconds after its fork whatever the other endpoints do; and
\* while it sleeps, every second since its fork has counted for its sleep.
C10_CommandAfterOwnOffset ==
    \A c \in EndpointChildren :
        /\ proc[c].ph = "run" =>
              proc[c].left = 0 /\ proc[c].age = Plan[c].sleep
        /\ proc[c].ph = "sleep" =>
              proc[c].age + proc[c].left = Plan[c].sleep
        /\ proc[c].ph \in {"zombie", "reaped"} /\ proc[c].remote = 0 =>
              proc[c].left = 0 /\ proc[c].age = Plan[c].sleep

\* two endpoints with a positive offset run their commands, each one exactly
\* its own offset after its fork, although they slept at the same time
C10_Witness ==
    \E c, d \in EndpointChildren :
        /\ c # d
        /\ proc[c].ph = "run" /\ proc[d].ph = "run"
        /\ proc[c].age = MaxOffset /\ proc[d].age = MaxOffset

---------------------------------------------------------------------------
(* Properties of process_log_to_df *)

SeriesReturned == df # <<>> /\ df.ok
\* the lines have the eleven fields of a log with one qdisc
OneQdisc(lines) == \A i \in DOMAIN lines : Len(lines[i]) = Len(LinkFields) + Len(QdiscFields)
\* timestamp and backlog of a line, as the collector wrote them
TimeOf(line) == line[IndexOf(LinkFields, "time")]
BacklogOf(line) == CollectorQdiscField(line, "backlog")
\* the samples after the first whose relative time is within the threshold
Retained ==
    {i \in 2..Len(raw_log) : TimeOf(raw_log[i]) - TimeOf(raw_log[2]) <= time_threshold}

C12_QueueSizeIsBacklogDifference ==
    SeriesReturned =>
        \A r \in DOMAIN df.rows :
            df.rows[r].queue_size
                = Num(BacklogOf(raw_log[r + 1]) - BacklogOf(raw_log[r]))

\* C14: a log with fewer than 2 samples gives an empty series and no error.
C14_ShortLogGivesEmptySeries ==
    df # <<>> /\ Len(raw_log) < 2 => df.ok /\ df.rows = <<>>

\* C15: the BACKLOG value of every row is the backlog the collector wrote
\* for the sample of that row.
C15_BacklogColumnIsCollectorBacklog ==
    SeriesReturned =>
        \A r \in DOMAIN df.rows : df.rows[r].BACKLOG = BacklogOf(raw_log[r + 1])

---------------------------------------------------------------------------
(* Properties of process_all_logs *)

BatchDone == log_pairs # <<>> /\ batch_i = Len(log_pairs)

\* C13: in every written series, queue_exists is 1 exactly in the rows whose
\* queue_size is above the queue_threshold given to process_all_logs.
C13_QueueExistsUsesConfiguredThreshold ==
    \A f \in csv_files : \A r \in DOMAIN f.rows :
        f.rows[r].queue_exists = 1
            <=> GreaterOrNaNFalse(f.rows[r].queue_size, queue_threshold)

\* the log of one side of a pair, and whether the builder can process it
LogOf(base_name, side) ==
    IF side = "downstream.csv" THEN log_pairs[base_name].downstream_log
    ELSE log_pairs[base_name].upstream_log
Processable(base_name, side) ==
    process_log_to_df(LogOf(base_name, side), time_threshold).ok
OutputOf(base_name, side) == [base_name |-> base_name, file |-> side]

\* C16: after the batch, every log that the builder can process has its
\* output written and counted, also when the other log of its pair failed,
\* and every failure is reported with the name of its pair.
C16_FailureIsLocalToOneFile ==
    BatchDone =>
        \A b \in DOMAIN log_pairs : \A side \in {"downstream.csv", "upstream.csv"} :
            IF Processable(b, side)
            THEN /\ \E f \in csv_files : f.name = OutputOf(b, side)
                 /\ \E k \in DOMAIN processed_files :
                        processed_files[k] = OutputOf(b, side)
            ELSE \E k \in DOMAIN errors : errors[k].base_name = b

---------------------------------------------------------------------------
(* Properties of peak_speed_detect *)

PeakReturned == peak_out # <<>> /\ peak_out.ok
short_term_step == Step(bin_widths_ms[1], time)
long_term_step == Step(bin_widths_ms[2], time)
\* 1-based positions of the output whose long-term window was computed
Covered == {i \in 1..Len(throughput) : i - 1 < Len(throughput) - long_term_step}

\* C17 (as stated): in a fully covered window the envelope is at least the
\* raw throughput.
C17_EnvelopeAtLeastRaw ==
    PeakReturned =>
        \A i \in Covered : peak_out.binned_peaks_lt[i] >= throughput[i]

\* C17 (amended): in a fully covered window the envelope is at least the
\* median-filtered throughput at that index.
C17_EnvelopeAtLeastFiltered ==
    PeakReturned =>
        \A i \in Covered : peak_out.binned_peaks_lt[i] >= peak_out.tpf[i]

\* a covered index where the filtered throughput is not zero
C17_Witness ==
    /\ PeakReturned
    /\ \E i \in Covered : peak_out.tpf[i] > 0 /\ peak_out.binned_peaks_lt[i] > 0

\* C18: a series shorter than long_term_step gives no crash, an envelope of
\* zeros and a score that is false everywhere.
C18_ShortSeriesAllZero ==
    /\ peak_out # <<>> /\ Len(time) >= 2
    /\ short_term_step >= 1 /\ Len(throughput) < long_term_step
    =>
        /\ peak_out.ok
        /\ \A i \in DOMAIN peak_out.binned_peaks_lt : peak_out.binned_peaks_lt[i] = 0
        /\ \A i \in DOMAIN peak_out.score : ~peak_out.score[i]

\* C19: a call with time and throughput of different lengths fails.
C19_LengthMismatchIsRejected ==
    peak_out # <<>> /\ Len(time) # Len(throughput) => ~peak_out.ok

\* C20: with long_term_step >= 1, each of the three outputs has the length
\* of the input series.
C20_OutputsHaveInputLength ==
    PeakReturned /\ long_term_step >= 1 =>
        /\ Len(peak_out.score) = Len(throughput)
        /\ Len(peak_out.binned_peaks_lt) = Len(throughput)
        /\ Len(peak_out.tpf) = Len(throughput)

\* a non-empty series came back from a call that padded it
C20_Witness ==
    /\ PeakReturned /\ long_term_step >= 2
    /\ Len(throughput) = MaxLen /\ Len(peak_out.tpf) = MaxLen

\* the padded series and the short-term series computed from it
padded_throughput == Zeros(long_term_step) \o throughput
binned_peaks_st == ShortTermPeaks(padded_throughput, short_term_step)
\* 0-based start indices of the full blocks of short_term_step samples
FullBlocks ==
    {idx \in 0..(Len(padded_throughput) - 1) :
        /\ idx % short_term_step = 0
        /\ idx + short_term_step <= Len(padded_throughput)}

\* C21: every sample of every full block of short_term_step samples of the
\* padded series, the last full block included, carries the maximum raw
\* throughput of its block.
C21_EveryFullBlockCarriesItsMaximum ==
    PeakReturned =>
        \A idx \in FullBlocks : \A j \in idx..(idx + short_term_step - 1) :
            At(binned_peaks_st, j)
                = Maximum({At(padded_throughput, k) :
                              k \in idx..(idx + short_term_step - 1)})

---------------------------------------------------------------------------
(* Properties of the signal handling around fork *)

Registered(c) == \E k \in DOMAIN pids : pids[k].pid = c

\* C24: whenever signal_handler runs, every child the orchestrator has
\* forked is in the registry, so the sweep reaches it.
C24_HandlerSeesEveryForkedChild ==
    hpc = "sweep" => \A c \in Forked : Registered(c)

---------------------------------------------------------------------------
(* Properties of trafgen.py *)

\* C22: the host stored in every registry entry is the host of the ssh
\* command that the child of that entry runs.
C22_EntryHostIsSshHost ==
    \A k \in DOMAIN pids :
        TrafgenPlan[pids[k].pid].child_ok =>
            pids[k].host = TrafgenPlan[pids[k].pid].ssh

---------------------------------------------------------------------------
(* Properties of the wrappers *)

\* C23: no wrapper ever calls os.kill on a tracked handle; only the
\* orchestrator does.
C23_NoWrapperKills == ckills = <<>>

---------------------------------------------------------------------------
(* Properties of run_experiments *)

\* the experiments whose launch raised: the loop went past them (or is about
\* to) and no process was started
LaunchRaised(e) ==
    /\ subprocess[e].st = "none"
    /\ e < exp_i \/ (e = exp_i /\ exp_pc = "finish")
Finished(e) ==
    \E k \in DOMAIN exp_out :
        exp_out[k] = [msg |-> "Finished experiment", file |-> test_files[e]]

\* C25: a config file is in the completed directory only after the process
\* of its experiment has exited; at most the current experiment has a running
\* process; a config whose launch raised stays in place; and when the loop
\* is over every config was gone through.
C25_SequentialAndMovedAfterExit ==
    /\ \A e \in DOMAIN test_files :
          /\ test_files[e] \in completed => subprocess[e].st = "exited"
          /\ subprocess[e].st = "running" => e = exp_i
          /\ e > exp_i => subprocess[e].st = "none"
          /\ LaunchRaised(e) =>
                test_files[e] \in test_configs /\ test_files[e] \notin completed
    /\ exp_pc = "done" => \A e \in DOMAIN test_files : Finished(e)

\* the launch of the first config raised and the second config was run and
\* moved
C25_Witness ==
    /\ exp_pc = "done" /\ Len(test_files) >= 2
    /\ LaunchRaised(1) /\ test_files[1] \in test_configs
    /\ test_files[2] \in completed

---------------------------------------------------------------------------
(* Properties of the collector *)

\* the sum of field f of the values emitted by ticks a..b
RECURSIVE SumEmitted(_, _, _)
SumEmitted(f, a, b) ==
    IF a > b THEN 0 ELSE emitted[b][f] + SumEmitted(f, a, b - 1)

\* C26: the value emitted at every tick is the counter read at that tick
\* minus the counter read at the tick before (minus 0 at the first tick),
\* and the values emitted by ticks 2..k add up to the counter at tick k
\* minus the counter at tick 1.
C26_EmittedValuesAreDeltas ==
    /\ Len(emitted) = Len(readings)
    /\ \A k \in DOMAIN emitted : \A f \in CounterFields :
          /\ emitted[k][f]
                = readings[k][f] - (IF k = 1 THEN 0 ELSE readings[k - 1][f])
          /\ SumEmitted(f, 2, k) = readings[k][f] - readings[1][f]

\* MaxTicks ticks on a link that had carried traffic before the start and
\* carried traffic in both directions between the ticks
C26_Witness ==
    /\ Len(emitted) = MaxTicks
    /\ readings[1].rx_packets > emitted[2].rx_packets
    /\ emitted[1].rx_bytes > 0
    /\ emitted[2].rx_bytes > 0 /\ emitted[MaxTicks].tx_bytes > 0
    /\ emitted[2].rx_bytes # emitted[2].tx_bytes
====
